---- MODULE Spec2Model ----
(***************************************************************************)
(* Model of the polymarket_address_tracking pipeline (run.py):             *)
(*   binance_fetcher.main   : fetch the 1s klines, walk the window second  *)
(*                            by second, emit one ledger row per second    *)
(*   analyze_strategy       : evaluate the ledger and the raw trade list   *)
(*                                                                         *)
(* Numbers.  Sizes are whole shares.  A trade price is an integer number   *)
(* of 1/PriceScale (four decimal places, the precision of round(x, 4)).    *)
(* A running cost (cum_up_cost, cum_down_cost) carries full precision: it  *)
(* is an integer number of 1/(PriceScale * MeanDen), where MeanDen is a    *)
(* common denominator of the per-second means sum(prices)/len(prices).     *)
(* A close is an integer number of cents (the tick size of the feed).      *)
(* A cell of a row is Blank (Python's "") or Some(x).                      *)
(***************************************************************************)
EXTENDS Integers, Sequences, FiniteSets, TLC

\* ---------------------------------------------------------------- bounds
\* Seconds of the model's time axis are 1..MaxTs.
MaxTs == 3
\* Longest trade list.
MaxTrades == 2

\* ------------------------------------------------------------- constants
\* round(x, 4): prices and derived values are emitted with 4 decimals.
PriceScale == 10000

RECURSIVE Fact(_)
Fact(n) == IF n <= 1 THEN 1 ELSE n * Fact(n - 1)

\* Common denominator of every mean sum(prices)/len(prices) of one second.
MeanDen == Fact(MaxTrades)

\* -------------------------------------------------------- optional cells
Blank == <<>>
Some(x) == <<x>>
Val(c) == c[1]

\* Python truthiness of a cell that is "" or a number.
Truthy(c) == c # Blank /\ Val(c) # 0

\* Mutant of CellOrBlank: the number is emitted even when it is 0.
CellAlways(x) == Some(x)

\* "x if x else ''" (rows 214-228 of binance_fetcher.py).
CellOrBlank(x) == IF x # 0 THEN Some(x) ELSE Blank

Abs(x) == IF x < 0 THEN -x ELSE x
Min(a, b) == IF a <= b THEN a ELSE b

\* round(n / d) to the nearest integer, ties to even (Python's round), d > 0, n >= 0.
RoundDiv(n, d) ==
    LET q == n \div d
        r == n % d
    IN  IF 2 * r < d THEN q
        ELSE IF 2 * r > d THEN q + 1
        ELSE IF q % 2 = 0 THEN q ELSE q + 1

RECURSIVE SeqSum(_)
SeqSum(s) == IF s = <<>> THEN 0 ELSE Head(s) + SeqSum(Tail(s))

\* ---------------------------------------------------------------- inputs
\* A missing timestamp (key absent or null); falsy like the timestamp 0.
NoTs == 0
NoTick == 0
Seconds == 1..MaxTs
Sides == {"BUY", "SELL"}
Outcomes == {"Up", "Down", "Yes"}
Sizes == {1, 2}
Prices == {0, 4000, PriceScale}
\* Closes in cents; the feed quotes positive prices.
Closes == {6000000, 6012345}

TradeSet ==
    [timestamp : Seconds \cup {NoTs}, side : Sides, outcome : Outcomes,
     size : Sizes, price : Prices]

RECURSIVE SeqsUpTo(_, _)
SeqsUpTo(S, n) ==
    IF n = 0 THEN {<<>>}
    ELSE LET shorter == SeqsUpTo(S, n - 1)
         IN  shorter \cup {Append(s, x) : s \in {t \in shorter : Len(t) = n - 1}, x \in S}

\* The lists of at most one trade.
FewTrades == {<<>>} \cup {<<tr>> : tr \in TradeSet}

\* (size, price) of the fills of the trade-rich specification.
Fills == {<<1, 0>>, <<1, 4000>>, <<2, PriceScale>>}

\* Stamped trades: BUY trades of the two outcomes with any fill, and one SELL
\* trade and one trade of an unrecognised outcome per second.
FillSet ==
    {tr \in TradeSet :
        /\ tr.timestamp # NoTs
        /\ <<tr.size, tr.price>> \in Fills
        /\ \/ (tr.side = "BUY" /\ tr.outcome \in {"Up", "Down"})
           \/ (<<tr.size, tr.price>> = <<1, 4000>> /\ tr.side = "SELL" /\ tr.outcome = "Up")
           \/ (<<tr.size, tr.price>> = <<1, 4000>> /\ tr.side = "BUY" /\ tr.outcome = "Yes")}

\* Trades of the two outcomes at one price, bought or sold, of any size,
\* stamped with any second or not stamped.
SizeSet == {tr \in TradeSet : tr.price = 4000 /\ tr.outcome \in {"Up", "Down"}}

\* What the exchange holds: for each second a close, or no tick.
Feeds == [Seconds -> Closes \cup {NoTick}]

\* Feeds with a tick every second that open at the lower close and stay
\* where they are from the second second on: flat, or rising once.
FullFeeds ==
    {f \in Feeds : /\ \A t \in Seconds : f[t] # NoTick
                   /\ \A c \in Closes : f[1] <= c
                   /\ \A t \in Seconds : t >= 2 => f[t] = f[MaxTs]}

\* Window bounds of the trade-rich specification.
EarlySeconds == {t \in Seconds : t <= 2}
LateSeconds == {t \in Seconds : t >= MaxTs - 1}

VARIABLES
    pc,             \* where the pipeline is
    start_ts,       \* event["start_ts"]
    end_ts,         \* event["end_ts"]
    trades,         \* pm_data["trades"]
    feed,           \* the exchange's klines
    kline_dict,     \* second -> close, for the seconds of the fetched klines
    ts,             \* the loop variable of the walk
    base_price,     \* the anchor
    cum_up_size,
    cum_up_cost,
    cum_down_size,
    cum_down_cost,
    rows,           \* the ledger
    returncode,     \* exit status of the last script run
    report          \* analyze_event's result

vars == <<pc, start_ts, end_ts, trades, feed, kline_dict, ts, base_price,
          cum_up_size, cum_up_cost, cum_down_size, cum_down_cost, rows,
          returncode, report>>

\* --------------------------------------------------------- fetch_klines_1s
\* Mutant of fetch_klines_1s: the loop condition is <= instead of <.
fetch_klines_1s_inclusive(s, e, ok) ==
    IF s * 1000 <= e * 1000 /\ ok
    THEN {t \in Seconds : s <= t /\ t <= e /\ feed[t] # NoTick}
    ELSE {}

\* The klines the loop collects: none when start_ts * 1000 >= end_ts * 1000 (the
\* while loop never runs) or when the request fails; otherwise the exchange's
\* ticks with open time in [start_ts, end_ts].
fetch_klines_1s(s, e, ok) ==
    IF s * 1000 < e * 1000 /\ ok
    THEN {t \in Seconds : s <= t /\ t <= e /\ feed[t] # NoTick}
    ELSE {}

\* kline_dict: second -> {"close": ...} (only the close is read afterwards).
KlineDict(klines) == [t \in klines |-> feed[t]]

\* kline.get("close", "") of kline_dict.get(ts, {}).
KlineClose(t) == IF t \in DOMAIN kline_dict THEN Some(kline_dict[t]) ELSE Blank

\* ------------------------------------------------------------ the grouper
\* trades_by_ts.get(t, []): trades with a truthy timestamp equal to t.
TradesByTs(trs, t) ==
    SelectSeq(trs, LAMBDA tr : tr.timestamp # NoTs /\ tr.timestamp = t)

\* Mutant of IsBuy: the side is not looked at.
IsBuyAnySide(tr, o) == tr.outcome = o

IsBuy(tr, o) == tr.side = "BUY" /\ tr.outcome = o

BuyOf(ts_trades, o) == SelectSeq(ts_trades, LAMBDA tr : IsBuy(tr, o))

SizesOf(s) == [i \in 1..Len(s) |-> s[i].size]
PricesOf(s) == [i \in 1..Len(s) |-> s[i].price]

\* buy_up_size / buy_down_size
BuySize(ts_trades, o) == SeqSum(SizesOf(BuyOf(ts_trades, o)))
\* buy_up_prices / buy_down_prices
BuyPrices(ts_trades, o) == PricesOf(BuyOf(ts_trades, o))

\* Mutant of MeanPrice: the first price of the second instead of the mean.
MeanPriceFirst(prices) == prices[1] * MeanDen

\* sum(prices) / len(prices), in 1/(PriceScale * MeanDen); prices is not empty.
MeanPrice(prices) == SeqSum(prices) * (MeanDen \div Len(prices))

\* cum_cost after "cum_cost += buy_size * avg_price" under "if buy_size > 0".
NextCumCost(cost, ts_trades, o) ==
    IF BuySize(ts_trades, o) > 0
    THEN cost + BuySize(ts_trades, o) * MeanPrice(BuyPrices(ts_trades, o))
    ELSE cost

\* Mutant of NextCumSize: the size is assigned, not added.
NextCumSizeAssign(size, ts_trades, o) ==
    IF BuySize(ts_trades, o) > 0 THEN BuySize(ts_trades, o) ELSE size

\* cum_size after "cum_size += buy_size" under "if buy_size > 0".
NextCumSize(size, ts_trades, o) ==
    IF BuySize(ts_trades, o) > 0 THEN size + BuySize(ts_trades, o) ELSE size

\* round(cum_cost / cum_size, 4) if cum_size > 0 else ""
CumAvgCost(cost, size) ==
    IF size > 0 THEN Some(RoundDiv(cost, MeanDen * size)) ELSE Blank


\* ------------------------------------------------------- one ledger second
\* Mutant of NextBasePrice: every close replaces the anchor.
NextBasePriceLatest(base, btc_close) ==
    IF Truthy(btc_close) THEN btc_close ELSE base

\* "if base_price is None and btc_close: base_price = btc_close"
NextBasePrice(base, btc_close) ==
    IF base = Blank /\ Truthy(btc_close) THEN btc_close ELSE base

\* "if base_price and btc_close: btc_delta = round(btc_close - base_price, 2)";
\* closes are whole cents, so the two-decimal rounding keeps the difference.
BtcDelta(base, btc_close) ==
    IF Truthy(base) /\ Truthy(btc_close)
    THEN Some(Val(btc_close) - Val(base))
    ELSE Blank

\* target_shares: "" unless a position exists.
TargetShares(up_size, down_size) ==
    IF up_size > 0 \/ down_size > 0 THEN Some(down_size - up_size) ELSE Blank

\* "round(1 - avg, 4) if avg else ''"
OneMinus(avg) == IF Truthy(avg) THEN Some(PriceScale - Val(avg)) ELSE Blank

\* target_price
TargetPrice(target_shares, up_avg, down_avg) ==
    IF target_shares = Blank THEN Blank
    ELSE IF Val(target_shares) < 0 THEN OneMinus(up_avg)
    ELSE OneMinus(down_avg)

\* cash_out_shares
CashOutShares(up_size, down_size) ==
    IF up_size > 0 \/ down_size > 0 THEN Some(Min(up_size, down_size)) ELSE Blank

\* cash_out_price: "if cum_up_avg_cost and cum_down_avg_cost"
CashOutPrice(up_size, down_size, up_avg, down_avg) ==
    IF (up_size > 0 \/ down_size > 0) /\ Truthy(up_avg) /\ Truthy(down_avg)
    THEN Some(Val(up_avg) + Val(down_avg))
    ELSE Blank

\* hidden_lost = round(-abs(target_shares) * (1 - target_price), 4), in 1/PriceScale
HiddenLost(target_shares, target_price) ==
    IF target_shares # Blank /\ target_price # Blank
    THEN Some(-Abs(Val(target_shares)) * (PriceScale - Val(target_price)))
    ELSE Blank

\* hidden_profit = round(cash_out_shares * (1 - cash_out_price), 4), in 1/PriceScale
HiddenProfit(cash_out_shares, cash_out_price) ==
    IF cash_out_shares # Blank /\ cash_out_price # Blank
    THEN Some(Val(cash_out_shares) * (PriceScale - Val(cash_out_price)))
    ELSE Blank

\* "sum(prices) / len(prices) if prices else ''", in 1/(PriceScale * MeanDen)
PriceCell(prices) == IF prices # <<>> THEN Some(MeanPrice(prices)) ELSE Blank

\* The row of second t, from the accumulators as updated in that second.
LedgerRow(t, btc_close, btc_delta, ts_trades, up_size, up_cost, down_size, down_cost) ==
    LET up_avg == CumAvgCost(up_cost, up_size)
        down_avg == CumAvgCost(down_cost, down_size)
        target_shares == TargetShares(up_size, down_size)
        target_price == TargetPrice(target_shares, up_avg, down_avg)
        cash_out_shares == CashOutShares(up_size, down_size)
        cash_out_price == CashOutPrice(up_size, down_size, up_avg, down_avg)
    IN  [timestamp |-> t,
         close |-> btc_close,
         btc_delta |-> btc_delta,
         buy_up_size |-> CellOrBlank(BuySize(ts_trades, "Up")),
         buy_up_price |-> PriceCell(BuyPrices(ts_trades, "Up")),
         buy_down_size |-> CellOrBlank(BuySize(ts_trades, "Down")),
         buy_down_price |-> PriceCell(BuyPrices(ts_trades, "Down")),
         cum_up_size |-> CellOrBlank(up_size),
         cum_up_avg_cost |-> up_avg,
         cum_down_size |-> CellOrBlank(down_size),
         cum_down_avg_cost |-> down_avg,
         target_shares |-> target_shares,
         target_price |-> target_price,
         cash_out_shares |-> cash_out_shares,
         cash_out_price |-> cash_out_price,
         hidden_lost |-> HiddenLost(target_shares, target_price),
         hidden_profit |-> HiddenProfit(cash_out_shares, cash_out_price),
         trade_count |-> CellOrBlank(Len(ts_trades))]

\* Mutant of WalkDone: range(start_ts, end_ts), the last second is left out.
WalkDoneEarly == ts >= end_ts

\* range(start_ts, end_ts + 1) is exhausted.
WalkDone == ts > end_ts

\* ------------------------------------------------------------ the program
NoReport == [fault |-> "none", done |-> FALSE]

\* Everything but the inputs, as main() sets it before the walk.
Fresh ==
    /\ pc = "fetch"
    /\ kline_dict = <<>>
    /\ ts = 0
    /\ base_price = Blank
    /\ cum_up_size = 0
    /\ cum_up_cost = 0
    /\ cum_down_size = 0
    /\ cum_down_cost = 0
    /\ rows = <<>>
    /\ returncode = 0
    /\ report = NoReport

\* Any window, any feed, no trade or one trade of any kind.
Init ==
    /\ start_ts \in Seconds
    /\ end_ts \in Seconds
    /\ trades \in FewTrades
    /\ feed \in Feeds
    /\ Fresh

\* Any trade list of fills, a window from one of the first two seconds to
\* one of the last two, a feed with a tick every second.
InitTrades ==
    /\ start_ts \in EarlySeconds
    /\ end_ts \in LateSeconds
    /\ trades \in SeqsUpTo(FillSet, MaxTrades)
    /\ feed \in FullFeeds
    /\ Fresh

\* Any list of trades of the two outcomes, stamped or not, a window from one
\* of the first two seconds to one of the last two, a feed with a tick every
\* second.
InitSizes ==
    /\ start_ts \in EarlySeconds
    /\ end_ts \in LateSeconds
    /\ trades \in SeqsUpTo(SizeSet, MaxTrades)
    /\ feed \in FullFeeds
    /\ Fresh

\* binance_fetcher.main up to the walk: read the event, fetch the klines, return
\* when there are none, else index them and group the trades.
FetchKlines ==
    /\ pc = "fetch"
    /\ \E ok \in BOOLEAN :
         LET klines == fetch_klines_1s(start_ts, end_ts, ok)
         IN  IF klines = {}
             THEN /\ pc' = "no_klines"
                  /\ UNCHANGED <<kline_dict, ts>>
             ELSE /\ pc' = "walk"
                  /\ kline_dict' = KlineDict(klines)
                  /\ ts' = start_ts
    /\ UNCHANGED <<start_ts, end_ts, trades, feed, base_price, cum_up_size,
                   cum_up_cost, cum_down_size, cum_down_cost, rows, returncode, report>>

\* One iteration of "for ts in range(start_ts, end_ts + 1)".
WalkSecond ==
    /\ pc = "walk"
    /\ ~WalkDone
    /\ LET ts_trades == TradesByTs(trades, ts)
           btc_close == KlineClose(ts)
           base == NextBasePrice(base_price, btc_close)
           up_size == NextCumSize(cum_up_size, ts_trades, "Up")
           up_cost == NextCumCost(cum_up_cost, ts_trades, "Up")
           down_size == NextCumSize(cum_down_size, ts_trades, "Down")
           down_cost == NextCumCost(cum_down_cost, ts_trades, "Down")
       IN  /\ base_price' = base
           /\ cum_up_size' = up_size
           /\ cum_up_cost' = up_cost
           /\ cum_down_size' = down_size
           /\ cum_down_cost' = down_cost
           /\ rows' = Append(rows, LedgerRow(ts, btc_close, BtcDelta(base, btc_close),
                                             ts_trades, up_size, up_cost,
                                             down_size, down_cost))
    /\ ts' = ts + 1
    /\ UNCHANGED <<pc, start_ts, end_ts, trades, feed, kline_dict, returncode, report>>

\* The walk is over: the rows are written to merged_<slug>.csv.
SaveCsv ==
    /\ pc = "walk"
    /\ WalkDone
    /\ pc' = "saved"
    /\ UNCHANGED <<start_ts, end_ts, trades, feed, kline_dict, ts, base_price,
                   cum_up_size, cum_up_cost, cum_down_size, cum_down_cost, rows,
                   returncode, report>>

\* ----------------------------------------------------------- analyze_event
\* prices: the closes of the rows whose close cell is a non-empty string.
RowCloses(rs) ==
    LET with == SelectSeq(rs, LAMBDA r : r.close # Blank)
    IN  [i \in 1..Len(with) |-> Val(with[i].close)]

\* actual_outcome = "Up" if price_change > 0 else "Down"
ActualOutcome(price_change) == IF price_change > 0 THEN "Up" ELSE "Down"

\* Mutant of BuyTotal: trades without a timestamp are skipped, as the grouper
\* of the ledger does.
BuyTotalStamped(trs, o) ==
    SeqSum(SizesOf(BuyOf(SelectSeq(trs, LAMBDA tr : tr.timestamp # NoTs), o)))

\* buy_up_total / buy_down_total: BUY sizes of one outcome over the raw list.
BuyTotal(trs, o) == SeqSum(SizesOf(BuyOf(trs, o)))

\* buy_up_cost / buy_down_cost: sum of size * price, in 1/PriceScale.
BuyCost(trs, o) ==
    LET b == BuyOf(trs, o)
    IN  SeqSum([i \in 1..Len(b) |-> b[i].size * b[i].price])

\* payout = <winning outcome>_total * 1.0, in shares (dollars).
Payout(actual_outcome, up_total, down_total) ==
    IF actual_outcome = "Up" THEN up_total ELSE down_total

\* roi = profit / total_cost * 100 if total_cost > 0 else 0, as a fraction.
Roi(profit, total_cost) ==
    IF total_cost > 0 THEN [num |-> profit * 100, den |-> total_cost]
    ELSE [num |-> 0, den |-> 1]

\* sorted_trades[0].get("timestamp"): the least timestamp, a missing one first.
FirstTradeTs(trs) ==
    CHOOSE t \in {trs[i].timestamp : i \in 1..Len(trs)} :
        \A i \in 1..Len(trs) : t <= trs[i].timestamp

\* Sections 4 and 5: the exception they raise, if any.  A first trade without a
\* timestamp gives None - int; a first trade in a second whose close cell is
\* empty gives float("").
TimingFault(trs, rs) ==
    IF trs = <<>> THEN "none"
    ELSE IF FirstTradeTs(trs) = NoTs THEN "TypeError"
    ELSE IF \E i \in 1..Len(rs) : /\ rs[i].timestamp = FirstTradeTs(trs)
                                  /\ rs[i].close = Blank
    THEN "ValueError"
    ELSE "none"

\* "correct": the majority side is the actual outcome (only when a BUY exists).
DirectionCorrect(actual_outcome, up_total, down_total) ==
    \/ (2 * up_total > up_total + down_total /\ actual_outcome = "Up")
    \/ (2 * down_total > up_total + down_total /\ actual_outcome = "Down")

\* analyze_event on the ledger and the raw trade list.
AnalyzeEvent(trs, rs, s, e) ==
    LET prices == RowCloses(rs)
        start_price == prices[1]
        end_price == prices[Len(prices)]
        price_change == end_price - start_price
        actual_outcome == ActualOutcome(price_change)
        up_total == BuyTotal(trs, "Up")
        down_total == BuyTotal(trs, "Down")
        total_cost == BuyCost(trs, "Up") + BuyCost(trs, "Down")
        payout == Payout(actual_outcome, up_total, down_total)
        profit == payout * PriceScale - total_cost
        fault == IF prices = <<>> THEN "IndexError"
                 ELSE IF start_price = 0 \/ e - s = 0 THEN "ZeroDivisionError"
                 ELSE TimingFault(trs, rs)
    IN  IF fault # "none" THEN [fault |-> fault, done |-> TRUE]
        ELSE [fault |-> "none", done |-> TRUE,
              actual_outcome |-> actual_outcome,
              price_change |-> price_change,
              buy_up_total |-> up_total,
              buy_down_total |-> down_total,
              total_cost |-> total_cost,
              payout |-> payout,
              profit |-> profit,
              roi |-> Roi(profit, total_cost),
              correct |-> DirectionCorrect(actual_outcome, up_total, down_total)]

\* analyze_strategy.main when merged_<slug>.csv exists.
Analyze ==
    /\ pc = "saved"
    /\ report' = AnalyzeEvent(trades, rows, start_ts, end_ts)
    /\ returncode' = IF report'.fault = "none" THEN 0 ELSE 1
    /\ pc' = IF report'.fault = "none" THEN "analyzed" ELSE "crashed"
    /\ UNCHANGED <<start_ts, end_ts, trades, feed, kline_dict, ts, base_price,
                   cum_up_size, cum_up_cost, cum_down_size, cum_down_cost, rows>>

\* analyze_strategy.main when binance_fetcher returned without a ledger: the
\* data file does not exist, main prints the error and returns.
AnalyzeNoData ==
    /\ pc = "no_klines"
    /\ pc' = "no_data"
    /\ UNCHANGED <<start_ts, end_ts, trades, feed, kline_dict, ts, base_price,
                   cum_up_size, cum_up_cost, cum_down_size, cum_down_cost, rows,
                   returncode, report>>

Next == FetchKlines \/ WalkSecond \/ SaveCsv \/ Analyze \/ AnalyzeNoData

Spec == Init /\ [][Next]_vars

SpecTrades == InitTrades /\ [][Next]_vars

SpecSizes == InitSizes /\ [][Next]_vars

\* ------------------------------------------------- vocabulary of the claims
\* The walk has begun (the rows and the accumulators are those of the walk).
Walking == pc \in {"walk", "saved", "analyzed", "crashed"}
\* The walk is over and the ledger is written.
Emitted == pc \in {"saved", "analyzed", "crashed"}
\* main returned without a ledger.
Aborted == pc \in {"no_klines", "no_data"}

\* A cell read as a number, the empty cell as 0.
CellNum(c) == IF c = Blank THEN 0 ELSE Val(c)

RECURSIVE SetSum(_, _)
SetSum(f, S) ==
    IF S = {} THEN 0
    ELSE LET x == CHOOSE y \in S : TRUE
         IN  f[x] + SetSum(f, S \ {x})

\* Indices of the BUY trades of outcome o stamped in lo..hi.
BuyIdx(o, lo, hi) ==
    {i \in 1..Len(trades) :
        /\ trades[i].side = "BUY"
        /\ trades[i].outcome = o
        /\ trades[i].timestamp \in lo..hi}

\* The first close of the seconds start_ts..t, if any has a tick.
FirstClose(t) ==
    LET ticked == {u \in start_ts..t : feed[u] # NoTick}
    IN  IF ticked = {} THEN Blank
        ELSE Some(feed[CHOOSE u \in ticked : \A v \in ticked : u <= v])

C4_AnchorSetOnce ==
    Walking =>
        /\ base_price = FirstClose(ts - 1)
        /\ \A i \in 1..Len(rows) :
             LET r == rows[i]
                 anchor == FirstClose(r.timestamp)
             IN  /\ r.close = IF feed[r.timestamp] # NoTick
                               THEN Some(feed[r.timestamp]) ELSE Blank
                 /\ (r.btc_delta # Blank) <=> (r.close # Blank /\ anchor # Blank)
                 /\ r.btc_delta # Blank =>
                        Val(r.btc_delta) = Val(r.close) - Val(anchor)
                 /\ r.close = Blank => r.btc_delta = Blank

\* The first second has no tick, the anchor is set later, a later second has
\* no tick again or moves away from the anchor.
C4_Witness ==
    /\ pc = "saved"
    /\ rows[1].close = Blank
    /\ base_price # Blank
    /\ \E i \in 1..Len(rows) : rows[i].btc_delta # Blank /\ Val(rows[i].btc_delta) # 0

\* ---------------------------------------------------------------------- C9
\* C9 as claimed: main returns without a ledger only for an inverted window,
\* and an inverted window ends the run with an error status.
C9_InvertedWindowOnlyFailure ==
    /\ Aborted => start_ts > end_ts
    /\ (start_ts > end_ts /\ pc # "fetch") => returncode # 0

\* C9 as amended: a window with start_ts >= end_ts never reaches the walk;
\* main returns without a ledger, with exit status 0, exactly when no kline
\* was fetched (which also happens for a non-inverted window), and once a
\* kline is fetched the walk runs whatever ticks and trades are absent.
C9_NoLedgerIffNoKlines ==
    /\ (start_ts >= end_ts /\ pc # "fetch") => Aborted
    /\ Aborted => (kline_dict = <<>> /\ rows = <<>> /\ returncode = 0)
    /\ Walking => /\ start_ts < end_ts
                  /\ DOMAIN kline_dict # {}
                  /\ DOMAIN kline_dict \subseteq start_ts..end_ts
    /\ (pc = "walk" /\ ~WalkDone) => ENABLED WalkSecond

\* main returned without a ledger although the window is not inverted and
\* the exchange holds a tick in it.
C9_Witness ==
    /\ pc = "no_klines"
    /\ start_ts < end_ts
    /\ \E t \in start_ts..end_ts : feed[t] # NoTick

\* --------------------------------------------------------------------- C10
PositionCellsBlank(r) ==
    /\ r.buy_up_size = Blank /\ r.buy_up_price = Blank
    /\ r.buy_down_size = Blank /\ r.buy_down_price = Blank
    /\ r.cum_up_size = Blank /\ r.cum_up_avg_cost = Blank
    /\ r.cum_down_size = Blank /\ r.cum_down_avg_cost = Blank
    /\ r.target_shares = Blank /\ r.target_price = Blank
    /\ r.cash_out_shares = Blank /\ r.cash_out_price = Blank
    /\ r.hidden_lost = Blank /\ r.hidden_profit = Blank
    /\ r.trade_count = Blank

\* C10: with an empty trade list every row has all its position cells empty,
\* and the evaluator ends without a fault and reports cost 0, profit 0, roi 0.
C10_NoTrades ==
    trades = <<>> =>
        /\ \A i \in 1..Len(rows) : PositionCellsBlank(rows[i])
        /\ pc # "crashed"
        /\ pc = "analyzed" =>
             /\ report.fault = "none"
             /\ report.total_cost = 0
             /\ report.payout = 0
             /\ report.profit = 0
             /\ report.roi.num = 0

\* The evaluator ran on a ledger without trades whose price moved.
C10_Witness ==
    /\ trades = <<>>
    /\ pc = "analyzed"
    /\ Len(rows) = 3
    /\ report.price_change # 0

\* ---------------------------------------------------------------------- C2
\* Sum of size * price over the BUY trades of outcome o stamped in lo..hi,
\* in 1/PriceScale.
FillCost(o, lo, hi) ==
    SetSum([i \in 1..Len(trades) |-> trades[i].size * trades[i].price], BuyIdx(o, lo, hi))

\* Sum of the sizes of the BUY trades of outcome o stamped in lo..hi.
FillSize(o, lo, hi) ==
    SetSum([i \in 1..Len(trades) |-> trades[i].size], BuyIdx(o, lo, hi))

\* Sum of the prices of the BUY trades of outcome o stamped in lo..hi.
FillPrices(o, lo, hi) ==
    SetSum([i \in 1..Len(trades) |-> trades[i].price], BuyIdx(o, lo, hi))

\* Total size of second u times the unweighted mean of its prices, in
\* 1/(PriceScale * MeanDen); 0 for a second without a BUY of outcome o.
SecondCost(o, u) ==
    IF BuyIdx(o, u, u) = {} THEN 0
    ELSE FillSize(o, u, u) * FillPrices(o, u, u)
            * (MeanDen \div Cardinality(BuyIdx(o, u, u)))

\* Sum over the seconds start_ts..t of size-of-the-second times mean price.
MeanCost(o, t) == SetSum([u \in start_ts..t |-> SecondCost(o, u)], start_ts..t)

\* No second of start_ts..t holds two BUY trades of outcome o at different prices.
OnePricePerSecond(o, t) ==
    \A i, j \in BuyIdx(o, start_ts, t) :
        trades[i].timestamp = trades[j].timestamp => trades[i].price = trades[j].price

\* C2 as claimed: after the seconds start_ts..ts-1 the running cost of each
\* outcome is the sum of size * price over its BUY trades stamped in them.
C2_CostIsSumSizePrice ==
    Walking =>
        /\ cum_up_cost = MeanDen * FillCost("Up", start_ts, ts - 1)
        /\ cum_down_cost = MeanDen * FillCost("Down", start_ts, ts - 1)

\* C2 as amended: the running cost of each outcome is the sum, over the
\* seconds processed, of the second's total BUY size times the unweighted
\* mean of the second's BUY prices; it is the sum of size * price when no
\* second holds two BUY trades of the outcome at different prices.
C2_CostIsSizeTimesMeanPrice ==
    Walking =>
        /\ cum_up_cost = MeanCost("Up", ts - 1)
        /\ cum_down_cost = MeanCost("Down", ts - 1)
        /\ OnePricePerSecond("Up", ts - 1) =>
              cum_up_cost = MeanDen * FillCost("Up", start_ts, ts - 1)
        /\ OnePricePerSecond("Down", ts - 1) =>
              cum_down_cost = MeanDen * FillCost("Down", start_ts, ts - 1)

\* A processed second holds two BUY trades of one outcome with different
\* sizes and prices.
C2_Witness ==
    /\ pc = "saved"
    /\ \E i, j \in BuyIdx("Up", start_ts, end_ts) :
         /\ trades[i].timestamp = trades[j].timestamp
         /\ trades[i].price # trades[j].price
         /\ trades[i].size # trades[j].size

\* ---------------------------------------------------------------------- C5
\* The trade list without the trades the ledger does not recognise.
Kept(trs) ==
    SelectSeq(trs, LAMBDA tr : tr.side = "BUY" /\ tr.outcome \in {"Up", "Down"})

\* The accumulators after the seconds start_ts..t of a walk over trs.
RECURSIVE CumSizeAt(_, _, _)
CumSizeAt(trs, o, t) ==
    IF t < start_ts THEN 0
    ELSE NextCumSize(CumSizeAt(trs, o, t - 1), TradesByTs(trs, t), o)

RECURSIVE CumCostAt(_, _, _)
CumCostAt(trs, o, t) ==
    IF t < start_ts THEN 0
    ELSE NextCumCost(CumCostAt(trs, o, t - 1), TradesByTs(trs, t), o)

\* The cumulative, exposure and hedge cells of a row.
PositionCells(r) ==
    <<r.buy_up_size, r.buy_up_price, r.buy_down_size, r.buy_down_price,
      r.cum_up_size, r.cum_up_avg_cost, r.cum_down_size, r.cum_down_avg_cost,
      r.target_shares, r.target_price, r.cash_out_shares, r.cash_out_price,
      r.hidden_lost, r.hidden_profit>>

\* The row of second t of a walk over trs (close and delta aside).
RowOver(trs, t) ==
    LedgerRow(t, Blank, Blank, TradesByTs(trs, t),
              CumSizeAt(trs, "Up", t), CumCostAt(trs, "Up", t),
              CumSizeAt(trs, "Down", t), CumCostAt(trs, "Down", t))

\* C5: the accumulators at every second, and the position cells of every row
\* of the written ledger, are those of a walk over the trade list with every
\* SELL trade and every trade of an unrecognised outcome removed.
C5_IgnoredTradesLeaveNoTrace ==
    Walking =>
        /\ cum_up_size = CumSizeAt(Kept(trades), "Up", ts - 1)
        /\ cum_up_cost = CumCostAt(Kept(trades), "Up", ts - 1)
        /\ cum_down_size = CumSizeAt(Kept(trades), "Down", ts - 1)
        /\ cum_down_cost = CumCostAt(Kept(trades), "Down", ts - 1)
        /\ pc = "saved" =>
             \A i \in 1..Len(rows) :
                 PositionCells(rows[i])
                     = PositionCells(RowOver(Kept(trades), rows[i].timestamp))

\* A finished ledger over a list with an ignored trade inside the window and
\* a position.
C5_Witness ==
    /\ pc = "saved"
    /\ cum_up_size + cum_down_size > 0
    /\ \E i \in 1..Len(trades) :
         /\ trades[i].timestamp \in start_ts..end_ts
         /\ (trades[i].side = "SELL" \/ trades[i].outcome = "Yes")

\* ---------------------------------------------------------------------- C6
\* C6: from each row to the next the cumulative size of each outcome grows
\* by the sizes of that outcome's BUY trades stamped in the row's second,
\* so it never decreases.
C6_CumSizeMonotone ==
    Walking =>
        \A i \in 1..Len(rows) :
            LET prev_up == IF i = 1 THEN 0 ELSE CellNum(rows[i - 1].cum_up_size)
                prev_down == IF i = 1 THEN 0 ELSE CellNum(rows[i - 1].cum_down_size)
                t == rows[i].timestamp
            IN  /\ CellNum(rows[i].cum_up_size) = prev_up + FillSize("Up", t, t)
                /\ CellNum(rows[i].cum_down_size) = prev_down + FillSize("Down", t, t)
                /\ CellNum(rows[i].cum_up_size) >= prev_up
                /\ CellNum(rows[i].cum_down_size) >= prev_down

\* The cumulative size of one outcome grew in two different seconds.
C6_Witness ==
    /\ pc = "saved"
    /\ \E i, j \in 1..Len(rows) :
         /\ i < j
         /\ CellNum(rows[i].cum_up_size) > 0
         /\ CellNum(rows[j].cum_up_size) > CellNum(rows[i].cum_up_size)

\* ---------------------------------------------------------------------- C3
\* C3: on every row with a position, net exposure is cum_size[Down] -
\* cum_size[Up]; with net exposure < 0 the target price is 1 - avg_cost[Up]
\* whenever cum_size[Up] > 0, otherwise it is 1 - avg_cost[Down] whenever
\* cum_size[Down] > 0; and the hidden loss is -|net exposure| * (1 - target
\* price) whenever the target price is defined.
C3_TargetFollowsExposure ==
    \A i \in 1..Len(rows) :
        LET r == rows[i]
            up == CellNum(r.cum_up_size)
            down == CellNum(r.cum_down_size)
        IN  (up > 0 \/ down > 0) =>
              /\ r.target_shares = Some(down - up)
              /\ (down - up < 0 /\ up > 0) =>
                    /\ r.cum_up_avg_cost # Blank
                    /\ r.target_price = Some(PriceScale - Val(r.cum_up_avg_cost))
              /\ (down - up >= 0 /\ down > 0) =>
                    /\ r.cum_down_avg_cost # Blank
                    /\ r.target_price = Some(PriceScale - Val(r.cum_down_avg_cost))
              /\ r.target_price # Blank =>
                    r.hidden_lost =
                        Some(-Abs(down - up) * (PriceScale - Val(r.target_price)))

\* ---------------------------------------------------------------------- C7
\* C7: on every row with a position the hedged size is the smaller of the
\* two cumulative sizes; the hedged price (the sum of the two average costs)
\* and the hidden profit (hedged size * (1 - hedged price)) are defined
\* exactly on the rows where both cumulative sizes are > 0.
C7_HedgeDefinedWhenBothHeld ==
    \A i \in 1..Len(rows) :
        LET r == rows[i]
            up == CellNum(r.cum_up_size)
            down == CellNum(r.cum_down_size)
        IN  /\ (up > 0 \/ down > 0) => r.cash_out_shares = Some(Min(up, down))
            /\ (up > 0 /\ down > 0) <=> r.cash_out_price # Blank
            /\ (up > 0 /\ down > 0) <=> r.hidden_profit # Blank
            /\ r.cash_out_price # Blank =>
                  /\ Val(r.cash_out_price) =
                        Val(r.cum_up_avg_cost) + Val(r.cum_down_avg_cost)
                  /\ Val(r.hidden_profit) =
                        Min(up, down) * (PriceScale - Val(r.cash_out_price))

\* ---------------------------------------------------------------------- C8
\* C8: the evaluator's actual_outcome is Up when the last close is above the
\* first, Down when it is below, and a third state, neither Up nor Down,
\* when the two are equal; the payout is then that of neither outcome
\* winning.
C8_TieIsItsOwnOutcome ==
    (pc = "analyzed" /\ report.fault = "none") =>
        /\ report.price_change > 0 => report.actual_outcome = "Up"
        /\ report.price_change < 0 => report.actual_outcome = "Down"
        /\ report.price_change = 0 => report.actual_outcome \notin {"Up", "Down"}

\* --------------------------------------------------------------------- C11
\* Every trade carries a timestamp inside [start_ts, end_ts].
AllInWindow == \A i \in 1..Len(trades) : trades[i].timestamp \in start_ts..end_ts

\* Sum of the sizes of the BUY trades of outcome o that carry no timestamp
\* or one outside [start_ts, end_ts].
OutsideSize(o) ==
    SetSum([i \in 1..Len(trades) |-> trades[i].size],
           {i \in 1..Len(trades) :
               /\ trades[i].side = "BUY"
               /\ trades[i].outcome = o
               /\ trades[i].timestamp \notin start_ts..end_ts})

\* The cumulative size of the last row of the ledger, the empty cell as 0.
LastCumUp == CellNum(rows[Len(rows)].cum_up_size)
LastCumDown == CellNum(rows[Len(rows)].cum_down_size)

\* C11: on the written ledger, the evaluator's total BUY size of each outcome
\* over the raw trade list is the cumulative size of the last row plus the
\* sizes of that outcome's BUY trades without a timestamp or stamped outside
\* the window; so the two agree when every trade is stamped inside the
\* window, and the report of a finished evaluation carries these totals.
C11_PassesAgreeOnSize ==
    Emitted =>
        /\ BuyTotal(trades, "Up") = LastCumUp + OutsideSize("Up")
        /\ BuyTotal(trades, "Down") = LastCumDown + OutsideSize("Down")
        /\ AllInWindow =>
              /\ BuyTotal(trades, "Up") = LastCumUp
              /\ BuyTotal(trades, "Down") = LastCumDown
        /\ pc = "analyzed" =>
              /\ report.buy_up_total = LastCumUp + OutsideSize("Up")
              /\ report.buy_down_total = LastCumDown + OutsideSize("Down")

\* The evaluator finished on a list of two BUY trades of one outcome stamped
\* in different seconds of the window, and its total is the last row's size.
C11_Witness ==
    /\ pc = "analyzed"
    /\ AllInWindow
    /\ Len(trades) = 2
    /\ trades[1].side = "BUY" /\ trades[2].side = "BUY"
    /\ trades[1].outcome = "Up" /\ trades[2].outcome = "Up"
    /\ trades[1].timestamp # trades[2].timestamp
    /\ report.buy_up_total = LastCumUp
    /\ LastCumUp = trades[1].size + trades[2].size

====
